---- MODULE Spec2Model ----
(***************************************************************************)
(* Model of TestProject/main.py: the employees table behind a PostgreSQL   *)
(* connection (psycopg2, autocommit off), Employee.save and                *)
(* Employee.bulk_insert, and the six CLI modes.                            *)
(*                                                                         *)
(* Text values are tuples of ASCII codes ("Ivan" is <<73,118,97,110>>), so *)
(* that prefixes, splitting and ordering are computed on the characters.   *)
(* Python's None (SQL NULL) is the one-element tuple <<-1>>.  A date is    *)
(* <<year, month, day>>.                                                   *)
(***************************************************************************)
EXTENDS Integers, Sequences, FiniteSets, Bags, TLC

(***************************************************************************)
(* Bounds of the model.                                                    *)
(***************************************************************************)
\* largest `total` handed to mode_bulk_generate
MaxTokens == 5

MaxYears == 24

MaxTotal == 6
\* longest list handed directly to Employee.bulk_insert
MaxLen == 3
\* BATCH_SIZE of the source (10000), scaled down
BATCH_SIZE == 2
\* the number of special records of the source (100), scaled down
SPECIAL_COUNT == 2

(***************************************************************************)
(* Text and dates.                                                         *)
(***************************************************************************)
None == <<-1>>
EmptyStr == <<>>
SPACE == 32

MALE == <<77, 97, 108, 101>>
FEMALE == <<70, 101, 109, 97, 108, 101>>

\* str(n) for n >= 0: the decimal digits, as ASCII codes
RECURSIVE Str(_)
Str(n) == IF n < 10 THEN <<48 + n>> ELSE Str(n \div 10) \o <<48 + (n % 10)>>

\* lexicographic order on tuples of integers (text, dates)
RECURSIVE SeqLess(_, _)
SeqLess(a, b) ==
    IF Len(b) = 0 THEN FALSE
    ELSE IF Len(a) = 0 THEN TRUE
    ELSE IF Head(a) # Head(b) THEN Head(a) < Head(b)
    ELSE SeqLess(Tail(a), Tail(b))

\* SQL: surname LIKE 'F%'
LikeFPrefix(s) == s # None /\ Len(s) >= 1 /\ s[1] = 70

(***************************************************************************)
(* Employee                                                                *)
(***************************************************************************)
Employee(surname, given, patronymic, dob, gender) ==
    [surname |-> surname, given_name |-> given, patronymic |-> patronymic,
     date_of_birth |-> dob, gender |-> gender]

\* age with the year taken off on the birthday itself as well
age_until_birthday(e, today) ==
    LET born == e.date_of_birth
        years == today[1] - born[1]
    IN  IF ~SeqLess(<<born[2], born[3]>>, <<today[2], today[3]>>)
        THEN years - 1 ELSE years

\* Employee.age(today)
age(e, today) ==
    LET born == e.date_of_birth
        years == today[1] - born[1]
    IN  IF SeqLess(<<today[2], today[3]>>, <<born[2], born[3]>>)
        THEN years - 1 ELSE years

\* Employee.to_tuple: the five column values in insert order
to_tuple(e) ==
    <<e.surname, e.given_name, e.patronymic, e.date_of_birth, e.gender>>

\* the columns of UNIQUE (surname, given_name, patronymic, date_of_birth)
UniqueKey(t) == <<t[1], t[2], t[3], t[4]>>

\* columns declared without NOT NULL: any value is accepted
NullsAccepted(t) == \A c \in 1..5 : t[c] = t[c]

\* the columns are all NOT NULL
NotNullOk(t) == \A c \in 1..5 : t[c] # None

(***************************************************************************)
(* parse_fullname, parse_date                                              *)
(***************************************************************************)
\* the characters str.split() and str.strip() treat as whitespace
WHITESPACE == {9, 10, 11, 12, 13, SPACE}

\* str.split(): the maximal runs of non-whitespace characters, in order
RECURSIVE SplitFrom(_, _, _)
SplitFrom(s, cur, acc) ==
    IF Len(s) = 0 THEN (IF Len(cur) = 0 THEN acc ELSE Append(acc, cur))
    ELSE IF Head(s) \in WHITESPACE
         THEN SplitFrom(Tail(s), <<>>, IF Len(cur) = 0 THEN acc ELSE Append(acc, cur))
         ELSE SplitFrom(Tail(s), Append(cur, Head(s)), acc)

Split(s) == SplitFrom(s, <<>>, <<>>)

\* " ".join(parts)
RECURSIVE Join(_)
Join(parts) ==
    IF Len(parts) = 0 THEN <<>>
    ELSE IF Len(parts) = 1 THEN parts[1]
    ELSE parts[1] \o <<SPACE>> \o Join(Tail(parts))

\* parse_fullname with parts[2] in place of " ".join(parts[2:])
parse_fullname_third(fullname) ==
    LET parts == Split(fullname)
    IN  IF Len(parts) >= 3
        THEN [ok |-> TRUE, value |-> <<parts[1], parts[2], parts[3]>>]
        ELSE IF Len(parts) = 2
        THEN [ok |-> TRUE, value |-> <<parts[1], parts[2], EmptyStr>>]
        ELSE [ok |-> FALSE, value |-> <<>>]

\* parse_fullname: ok = FALSE stands for the ValueError
parse_fullname(fullname) ==
    LET parts == Split(fullname)
    IN  IF Len(parts) = 3
        THEN [ok |-> TRUE, value |-> <<parts[1], parts[2], parts[3]>>]
        ELSE IF Len(parts) = 2
        THEN [ok |-> TRUE, value |-> <<parts[1], parts[2], EmptyStr>>]
        ELSE IF Len(parts) > 3
        THEN [ok |-> TRUE,
              value |-> <<parts[1], parts[2], Join(SubSeq(parts, 3, Len(parts)))>>]
        ELSE [ok |-> FALSE, value |-> <<>>]

\* the fields of s between the separator characters, empty fields kept
RECURSIVE FieldsFrom(_, _, _, _)
FieldsFrom(s, sep, cur, acc) ==
    IF Len(s) = 0 THEN Append(acc, cur)
    ELSE IF Head(s) = sep
         THEN FieldsFrom(Tail(s), sep, <<>>, Append(acc, cur))
         ELSE FieldsFrom(Tail(s), sep, Append(cur, Head(s)), acc)

IsDigit(c) == c >= 48 /\ c <= 57

\* int() of a field of digits
RECURSIVE DigitsValue(_)
DigitsValue(f) ==
    IF Len(f) = 0 THEN 0
    ELSE 10 * DigitsValue(SubSeq(f, 1, Len(f) - 1)) + (f[Len(f)] - 48)

\* strptime's %Y: exactly four digits
MatchesYear(f) == Len(f) = 4 /\ \A k \in 1..4 : IsDigit(f[k])

\* strptime's %m: 1[0-2] | 0[1-9] | [1-9]
MatchesMonth(f) ==
    \/ Len(f) = 2 /\ f[1] = 49 /\ f[2] \in 48..50
    \/ Len(f) = 2 /\ f[1] = 48 /\ f[2] \in 49..57
    \/ Len(f) = 1 /\ f[1] \in 49..57

\* strptime's %d: 3[01] | [12]\d | 0[1-9] | [1-9] | " "[1-9]
MatchesDay(f) ==
    \/ Len(f) = 2 /\ f[1] = 51 /\ f[2] \in 48..49
    \/ Len(f) = 2 /\ f[1] \in 49..50 /\ IsDigit(f[2])
    \/ Len(f) = 2 /\ f[1] = 48 /\ f[2] \in 49..57
    \/ Len(f) = 1 /\ f[1] \in 49..57
    \/ Len(f) = 2 /\ f[1] = SPACE /\ f[2] \in 49..57

IsLeap(y) == (y % 4 = 0 /\ y % 100 # 0) \/ y % 400 = 0

DaysInMonth(y, m) ==
    IF m = 2 THEN (IF IsLeap(y) THEN 29 ELSE 28)
    ELSE IF m \in {4, 6, 9, 11} THEN 30 ELSE 31

\* datetime.date(y, m, d) accepts these
ValidDate(y, m, d) ==
    y >= 1 /\ y <= 9999 /\ m >= 1 /\ m <= 12 /\ d >= 1 /\ d <= DaysInMonth(y, m)

\* parse_date: strptime(datestr, "%Y-%m-%d").date(); ok = FALSE is the ValueError
parse_date(datestr) ==
    LET f == FieldsFrom(datestr, 45, <<>>, <<>>)
        dayDigits == IF Len(f) = 3 /\ Len(f[3]) = 2 /\ f[3][1] = SPACE
                     THEN <<f[3][2]>> ELSE IF Len(f) = 3 THEN f[3] ELSE <<>>
    IN  IF /\ Len(f) = 3
           /\ MatchesYear(f[1]) /\ MatchesMonth(f[2]) /\ MatchesDay(f[3])
           /\ ValidDate(DigitsValue(f[1]), DigitsValue(f[2]), DigitsValue(dayDigits))
        THEN [ok |-> TRUE,
              value |-> <<DigitsValue(f[1]), DigitsValue(f[2]), DigitsValue(dayDigits)>>]
        ELSE [ok |-> FALSE, value |-> <<>>]

(***************************************************************************)
(* The synthetic generator                                                 *)
(***************************************************************************)
\* datetime.date.today() of the run
Today == <<2026, 11, 2>>

\* FIRST_NAMES and PATRONYMICS, cut to their first entries ("Ivan", "Petr";
\* "Ivanovich")
FIRST_NAMES == << <<73, 118, 97, 110>>, <<80, 101, 116, 114>> >>
PATRONYMICS == << <<73, 118, 97, 110, 111, 118, 105, 99, 104>> >>

\* "A" .. "Z"
LETTERS == [k \in 1..26 |-> <<64 + k>>]

\* SURNAMES_BY_LETTER[L][n], n in 1..200: f"{L}surname{n}"
SurnameByLetter(L, n) == L \o <<115, 117, 114, 110, 97, 109, 101>> \o Str(n)

\* the values the random draws of gen_random_employee range over in the model:
\* a surname number in 1..200, a first name, a patronymic, an age in 18..70,
\* a month in 1..12, a day in 1..28
GeneralDraws ==
    [n : {1}, given : {FIRST_NAMES[1]}, patronymic : {PATRONYMICS[1]},
     age_years : {18}, month : {1}, day : {1}]

\* gen_random_employee(letter, gender) with the draws d
gen_random_employee(letter, gender, d) ==
    Employee(SurnameByLetter(letter, d.n), d.given, d.patronymic,
             <<Today[1] - d.age_years, d.month, d.day>>, gender)

\* the cycle started one letter late
GeneralLetterShifted(i) == LETTERS[((i + 1) % Len(LETTERS)) + 1]

\* the genders the other way round: "Female" for even i
GeneralGenderSwapped(i) == IF i % 2 = 0 THEN FEMALE ELSE MALE

\* the i-th general record of mode_bulk_generate (i from 0)
GeneralLetter(i) == LETTERS[(i % Len(LETTERS)) + 1]
GeneralGender(i) == IF i % 2 = 0 THEN MALE ELSE FEMALE

\* the draws of one special record: a first name, a patronymic, a year in
\* today.year-60 .. today.year-18, a month, a day
SpecialDraws ==
    [given : {FIRST_NAMES[1]}, patronymic : {PATRONYMICS[1]},
     year : {Today[1] - 60, Today[1] - 18}, month : {1}, day : {1}]

\* the special surnames under another letter: f"G_special_{k}"
SpecialSurnameG(k) == <<71, 95, 115, 112, 101, 99, 105, 97, 108, 95>> \o Str(k)

\* f"F_special_{k}"
SpecialSurname(k) == <<70, 95, 115, 112, 101, 99, 105, 97, 108, 95>> \o Str(k)

\* the k-th special record (k from 1) with the draws d
SpecialEmployee(k, d) ==
    Employee(SpecialSurname(k), d.given, d.patronymic, <<d.year, d.month, d.day>>, MALE)

(***************************************************************************)
(* The store: INSERT ... ON CONFLICT DO NOTHING, the query of mode 5       *)
(***************************************************************************)
\* the unique keys of the rows of a bag
KeysOf(bag) == {UniqueKey(t) : t \in BagToSet(bag)}

\* the rows of a sequence, as a bag
SeqToBag(values) ==
    [t \in {values[k] : k \in 1..Len(values)} |->
        Cardinality({k \in 1..Len(values) : values[k] = t})]

\* a plain INSERT into a table without the UNIQUE constraint: every row is added
InsertAll(visible, values) == visible (+) SeqToBag(values)

\* ON CONFLICT (key) DO UPDATE SET gender = EXCLUDED.gender: a row whose key is
\* present replaces the stored row
RECURSIVE InsertDoUpdate(_, _)
InsertDoUpdate(visible, values) ==
    IF Len(values) = 0 THEN visible
    ELSE LET t == Head(values)
             same == {x \in BagToSet(visible) : UniqueKey(x) = UniqueKey(t)}
         IN  InsertDoUpdate((visible (-) SetToBag(same)) (+) SetToBag({t}), Tail(values))

\* the rows one multi-row INSERT ... ON CONFLICT (key) DO NOTHING adds to the
\* visible rows: each row in order, skipped when its key is already present
RECURSIVE InsertDoNothing(_, _)
InsertDoNothing(visible, values) ==
    IF Len(values) = 0 THEN visible
    ELSE IF UniqueKey(Head(values)) \in KeysOf(visible)
         THEN InsertDoNothing(visible, Tail(values))
         ELSE InsertDoNothing(visible (+) SetToBag({Head(values)}), Tail(values))

\* the statement is rejected as a whole: no table, or a NULL in a NOT NULL column
InsertRejected(hasTable, values) ==
    ~hasTable \/ \E k \in 1..Len(values) : ~NotNullOk(values[k])

\* WHERE gender = 'Male' AND surname LIKE 'F%'
MaleF(t) == t[5] = MALE /\ LikeFPrefix(t[1])

(***************************************************************************)
(* State                                                                   *)
(***************************************************************************)
VARIABLES
    schema,         \* the employees table exists (committed)
    table,          \* the committed rows of employees, a bag of 5-tuples
    indexes,        \* the committed indexes, a set of names
    conn,           \* the operation's connection: "none", "open", "closed"
    acquired,       \* get_conn() calls of the operation
    txn,            \* the connection's transaction: "idle", "active", "aborted", "lost"
    work,           \* the rows the connection sees: committed ones and its uncommitted changes
    pendingIdx,     \* indexes created by the open transaction, not yet committed
    op,             \* the running operation, "idle" between operations
    pc,             \* the statement the operation is at
    outcome,        \* "none" while running, "ok" returned, "error" an exception left it
    argv,           \* mode_insert_single: fullname, dob_str, gender as given
    emp,            \* Employee.save: self
    employees,      \* Employee.bulk_insert: employees
    batch_size,     \* Employee.bulk_insert: batch_size
    off,            \* Employee.bulk_insert: the loop index i
    ret,            \* where the caller of save / bulk_insert continues
    total,          \* mode_bulk_generate: total
    idx,            \* mode_bulk_generate: records generated so far
    batch,          \* mode_bulk_generate: batch
    rows,           \* the rows fetched by mode 3 and mode 5
    sidx,           \* mode_optimize_create_indexes: position in sqls
    reported,       \* mode_optimize_create_indexes: failures printed
    results,        \* mode_optimize_create_indexes: how each cur.execute(s) ended, in order
    faulted,        \* history: the store failed a call of mode 6 for a reason outside its state
    attempted,      \* history: the rows handed to the store by the operation, in order
    tableAtStart,   \* history: table when the operation started
    repeat,         \* history: the operation repeats the call completed just before it
    loaded,         \* history: a mode-4 load has run to its end
    pure            \* a function of the program called on its own: its inputs and result

progVars == <<schema, table, indexes, conn, acquired, txn, work, pendingIdx,
          op, pc, outcome, emp, argv, employees, batch_size, off, ret, total, idx, batch,
          rows, sidx, reported, results, faulted, attempted, tableAtStart, repeat, loaded>>

vars == <<progVars, pure>>

storeVars == <<schema, table, indexes>>
txnVars == <<txn, work, pendingIdx>>
insertVars == <<emp, argv, employees, batch_size, off, ret>>
genVars == <<total, idx, batch>>
optVars == <<sidx, reported, results, faulted>>

NoEmployee == Employee(None, None, None, None, None)

\* the statements of sqls, by the index each creates
sqls == <<"idx_gender_surname", "idx_gender_lower_surname">>

\* nothing runs and no function is being called on its own
NoCall == [fn |-> "none", done |-> FALSE]

\* the program before its first command, on an empty database
Idle ==
    /\ schema = FALSE /\ table = EmptyBag /\ indexes = {}
    /\ conn = "none" /\ acquired = 0
    /\ txn = "idle" /\ work = EmptyBag /\ pendingIdx = {}
    /\ op = "idle" /\ pc = "idle" /\ outcome = "none"
    /\ argv = <<>> /\ emp = NoEmployee /\ employees = <<>> /\ batch_size = 0 /\ off = 0 /\ ret = "none"
    /\ total = 0 /\ idx = 0 /\ batch = <<>>
    /\ rows = <<>>
    /\ sidx = 0 /\ reported = 0 /\ results = <<>> /\ faulted = FALSE
    /\ attempted = <<>> /\ tableAtStart = EmptyBag /\ repeat = FALSE /\ loaded = FALSE

Init == Idle /\ pure = NoCall

\* an operation starts: it runs from the idle state, one at a time
Begin(name) ==
    /\ op = "idle"
    /\ op' = name
    /\ attempted' = <<>>
    /\ tableAtStart' = table
    /\ repeat' = FALSE
    /\ UNCHANGED loaded

\* get_conn(): a fresh connection, no transaction open
get_conn ==
    /\ conn' = "open"
    /\ acquired' = acquired + 1
    /\ txn' = "idle" /\ work' = table /\ pendingIdx' = {}

\* an exception leaves the operation at the statement it is at
Raise ==
    /\ outcome' = "error"
    /\ UNCHANGED <<op, pc>>

Running(name, at) == op = name /\ pc = at /\ outcome = "none"

(***************************************************************************)
(* Employee.save                                                           *)
(***************************************************************************)
\* cur.execute(sql, self.to_tuple())
SaveExecute ==
    /\ pc = "save_execute" /\ outcome = "none"
    /\ attempted' = Append(attempted, to_tuple(emp))
    /\ \E err \in BOOLEAN :
        IF err \/ InsertRejected(schema, <<to_tuple(emp)>>)
        THEN /\ Raise
             /\ txn' = "aborted"
             /\ UNCHANGED <<work, pendingIdx>>
        ELSE /\ work' = InsertDoNothing(work, <<to_tuple(emp)>>)
             /\ txn' = "active"
             /\ pc' = "save_commit"
             /\ UNCHANGED <<op, outcome, pendingIdx>>
    /\ UNCHANGED <<pure, storeVars, conn, acquired, insertVars, genVars, rows, optVars,
                   tableAtStart, repeat, loaded>>

\* conn.commit(), then back to the caller
SaveCommit ==
    /\ pc = "save_commit" /\ outcome = "none"
    /\ \E err \in BOOLEAN :
        IF err
        THEN /\ Raise
             /\ UNCHANGED <<table, txnVars>>
        ELSE /\ table' = work
             /\ work' = work
             /\ txn' = "idle"
             /\ pc' = ret
             /\ outcome' = IF ret = "return" THEN "ok" ELSE "none"
             /\ UNCHANGED <<op, pendingIdx>>
    /\ UNCHANGED <<pure, schema, indexes, conn, acquired, insertVars, genVars, rows, optVars,
                   attempted, tableAtStart, repeat, loaded>>

(***************************************************************************)
(* Employee.bulk_insert                                                    *)
(***************************************************************************)
\* tuples = [e.to_tuple() for e in employees]
tuples == [k \in 1..Len(employees) |-> to_tuple(employees[k])]

Min(a, b) == IF a < b THEN a ELSE b

\* tuples[i:i + batch_size]
Chunk(i) == SubSeq(tuples, i + 1, Min(i + batch_size, Len(tuples)))

\* one turn of the loop: execute_values(cur, sql, batch, page_size=batch_size)
BulkExecuteValues ==
    /\ pc = "bulk_loop" /\ outcome = "none"
    /\ off < Len(tuples)
    /\ attempted' = attempted \o Chunk(off)
    /\ \E err \in BOOLEAN :
        IF err \/ InsertRejected(schema, Chunk(off))
        THEN /\ Raise
             /\ txn' = "aborted"
             /\ UNCHANGED <<work, pendingIdx, off>>
        ELSE /\ work' = InsertDoNothing(work, Chunk(off))
             /\ txn' = "active"
             /\ off' = off + batch_size
             /\ UNCHANGED <<op, pc, outcome, pendingIdx>>
    /\ UNCHANGED <<pure, storeVars, conn, acquired, emp, argv, employees, batch_size, ret, genVars,
                   rows, optVars, tableAtStart, repeat, loaded>>

\* bulk_insert without its conn.commit(), the load committing once, at its end
BulkCommitAtEnd ==
    /\ pc = "bulk_loop" /\ outcome = "none"
    /\ off >= Len(tuples)
    /\ \E err \in BOOLEAN :
        IF err
        THEN /\ Raise
             /\ UNCHANGED <<table, txnVars>>
        ELSE /\ table' = IF ret \in {"return", "close"} THEN work ELSE table
             /\ work' = work
             /\ txn' = IF ret \in {"return", "close"} THEN "idle" ELSE "active"
             /\ pc' = ret
             /\ outcome' = IF ret = "return" THEN "ok" ELSE "none"
             /\ UNCHANGED <<op, pendingIdx>>
    /\ UNCHANGED <<pure, schema, indexes, conn, acquired, insertVars, genVars, rows, optVars,
                   attempted, tableAtStart, repeat, loaded>>

\* the loop is over: conn.commit(), then back to the caller
BulkCommit ==
    /\ pc = "bulk_loop" /\ outcome = "none"
    /\ off >= Len(tuples)
    /\ \E err \in BOOLEAN :
        IF err
        THEN /\ Raise
             /\ UNCHANGED <<table, txnVars>>
        ELSE /\ table' = work
             /\ work' = work
             /\ txn' = "idle"
             /\ pc' = ret
             /\ outcome' = IF ret = "return" THEN "ok" ELSE "none"
             /\ UNCHANGED <<op, pendingIdx>>
    /\ UNCHANGED <<pure, schema, indexes, conn, acquired, insertVars, genVars, rows, optVars,
                   attempted, tableAtStart, repeat, loaded>>

(***************************************************************************)
(* Direct calls of Employee.save and Employee.bulk_insert on a connection  *)
(* the caller holds                                                        *)
(***************************************************************************)
\* the records handed to the direct calls: F_special_1 as a woman and as a man
\* (one identity key), a record without surname, one with an empty given name,
\* one without given name, and Asurname1, which the generator produces too
UserEmployees ==
    { Employee(SpecialSurname(1), FIRST_NAMES[1], PATRONYMICS[1], <<Today[1] - 18, 1, 1>>, FEMALE),
      Employee(SpecialSurname(1), FIRST_NAMES[1], PATRONYMICS[1], <<Today[1] - 18, 1, 1>>, MALE),
      Employee(None, FIRST_NAMES[1], PATRONYMICS[1], <<Today[1] - 18, 1, 1>>, MALE),
      Employee(SurnameByLetter(LETTERS[1], 1), EmptyStr, PATRONYMICS[1], <<Today[1] - 18, 1, 1>>, MALE),
      Employee(SurnameByLetter(LETTERS[1], 1), None, PATRONYMICS[1], <<Today[1] - 18, 1, 1>>, MALE),
      Employee(SurnameByLetter(LETTERS[1], 1), FIRST_NAMES[1], PATRONYMICS[1], <<Today[1] - 18, 1, 1>>, MALE) }

\* the lists of at most MaxLen of these records
UserLists == UNION {[1..n -> UserEmployees] : n \in 0..MaxLen}

\* self.save(conn)
CallSave ==
    /\ Begin("save")
    /\ \E e \in UserEmployees : emp' = e
    /\ UNCHANGED argv
    /\ conn' = "open" /\ txn' = "idle" /\ work' = table /\ pendingIdx' = {}
    /\ pc' = "save_execute" /\ ret' = "return"
    /\ UNCHANGED <<pure, storeVars, acquired, outcome, employees, batch_size, off, genVars,
                   rows, optVars>>

\* Employee.bulk_insert(conn, employees, batch_size)
CallBulkInsert ==
    /\ Begin("bulk_insert")
    /\ \E l \in UserLists : employees' = l
    /\ \E b \in 1..MaxLen : batch_size' = b
    /\ conn' = "open" /\ txn' = "idle" /\ work' = table /\ pendingIdx' = {}
    /\ off' = 0
    /\ pc' = "bulk_loop" /\ ret' = "return"
    /\ UNCHANGED <<pure, storeVars, acquired, outcome, emp, argv, genVars, rows, optVars>>

\* the same call once more, right after it returned
CallAgain ==
    /\ op \in {"save", "bulk_insert"} /\ outcome = "ok"
    /\ outcome' = "none"
    /\ pc' = IF op = "save" THEN "save_execute" ELSE "bulk_loop"
    /\ off' = 0
    /\ attempted' = <<>>
    /\ tableAtStart' = table
    /\ repeat' = TRUE
    /\ UNCHANGED <<pure, loaded, storeVars, conn, acquired, txnVars, op, emp, argv, employees, batch_size,
                   ret, genVars, rows, optVars>>

(***************************************************************************)
(* Mode 1: mode_create_table                                               *)
(***************************************************************************)
CreateTableStart ==
    /\ Begin("create_table")
    /\ get_conn
    /\ pc' = "execute"
    /\ UNCHANGED <<pure, storeVars, outcome, insertVars, genVars, rows, optVars>>

\* cur.execute(sql); conn.commit(): CREATE TABLE IF NOT EXISTS
CreateTableExecute ==
    /\ Running("create_table", "execute")
    /\ \E err \in BOOLEAN :
        IF err
        THEN Raise /\ UNCHANGED schema
        ELSE schema' = TRUE /\ pc' = "close" /\ UNCHANGED <<op, outcome>>
    /\ UNCHANGED <<pure, table, indexes, conn, acquired, txnVars, insertVars, genVars, rows,
                   optVars, attempted, tableAtStart, repeat, loaded>>

CreateTableClose ==
    /\ Running("create_table", "close")
    /\ conn' = "closed"
    /\ outcome' = "ok"
    /\ UNCHANGED <<pure, storeVars, acquired, txnVars, op, pc, insertVars, genVars, rows,
                   optVars, attempted, tableAtStart, repeat, loaded>>

(***************************************************************************)
(* Mode 2: mode_insert_single                                              *)
(***************************************************************************)
\* argv[2]: "F_special_1 Ivan Ivanovich", "Asurname1 Ivan Ivanovich", "Ivan",
\* " " and ""
FullNameArgs ==
    { <<70, 95, 115, 112, 101, 99, 105, 97, 108, 95, 49, 32, 73, 118, 97, 110, 32,
        73, 118, 97, 110, 111, 118, 105, 99, 104>>,
      <<65, 115, 117, 114, 110, 97, 109, 101, 49, 32, 73, 118, 97, 110, 32,
        73, 118, 97, 110, 111, 118, 105, 99, 104>>,
      <<73, 118, 97, 110>>, <<SPACE>>, EmptyStr }

\* argv[3]: "2008-01-01", "2008-1-1", "2008-13-01", "2008-02-30", "20080101"
DateArgs ==
    { <<50, 48, 48, 56, 45, 48, 49, 45, 48, 49>>,
      <<50, 48, 48, 56, 45, 49, 45, 49>>,
      <<50, 48, 48, 56, 45, 49, 51, 45, 48, 49>>,
      <<50, 48, 48, 56, 45, 48, 50, 45, 51, 48>>,
      <<50, 48, 48, 56, 48, 49, 48, 49>> }

\* argv[4]
GenderArgs == {MALE, FEMALE}

\* the call with get_conn() moved before the parsing of the arguments
InsertSingleConnFirst ==
    /\ Begin("insert_single")
    /\ get_conn
    /\ \E fullname \in FullNameArgs, dob_str \in DateArgs, gender \in GenderArgs :
        LET name == parse_fullname(fullname)
            dob == parse_date(dob_str)
        IN  /\ argv' = <<fullname, dob_str, gender>>
            /\ IF name.ok /\ dob.ok
               THEN /\ emp' = Employee(name.value[1], name.value[2], name.value[3],
                                       dob.value, gender)
                    /\ pc' = "save_execute" /\ ret' = "close"
                    /\ UNCHANGED outcome
               ELSE /\ pc' = "parse"
                    /\ outcome' = "error"
                    /\ UNCHANGED <<emp, ret>>
    /\ UNCHANGED <<pure, storeVars, employees, batch_size, off, genVars, rows, optVars>>

\* parse_fullname, parse_date, Employee(...), get_conn()
InsertSingleStart ==
    /\ Begin("insert_single")
    /\ \E fullname \in FullNameArgs, dob_str \in DateArgs, gender \in GenderArgs :
        LET name == parse_fullname(fullname)
            dob == parse_date(dob_str)
        IN  /\ argv' = <<fullname, dob_str, gender>>
            /\ IF name.ok /\ dob.ok
               THEN /\ emp' = Employee(name.value[1], name.value[2], name.value[3],
                                       dob.value, gender)
                    /\ get_conn
                    /\ pc' = "save_execute" /\ ret' = "close"
                    /\ UNCHANGED outcome
               ELSE /\ pc' = "parse"
                    /\ outcome' = "error"
                    /\ UNCHANGED <<emp, ret, conn, acquired, txnVars>>
    /\ UNCHANGED <<pure, storeVars, employees, batch_size, off, genVars, rows, optVars>>

\* conn.close() and the report
InsertSingleClose ==
    /\ Running("insert_single", "close")
    /\ conn' = "closed"
    /\ outcome' = "ok"
    /\ UNCHANGED <<pure, storeVars, acquired, txnVars, op, pc, insertVars, genVars, rows,
                   optVars, attempted, tableAtStart, repeat, loaded>>

(***************************************************************************)
(* Mode 3: mode_list_all                                                   *)
(***************************************************************************)
TextLess(a, b) == SeqLess(a, b)

\* ORDER BY surname, given_name, patronymic: row a sorts strictly before row b
NameLess(a, b) ==
    \/ TextLess(a[1], b[1])
    \/ a[1] = b[1] /\ TextLess(a[2], b[2])
    \/ a[1] = b[1] /\ a[2] = b[2] /\ TextLess(a[3], b[3])

\* ORDER BY surname DESC, given_name DESC, patronymic DESC
RECURSIVE OrderedByNameDesc(_)
OrderedByNameDesc(S) ==
    IF S = {} THEN {<<>>}
    ELSE UNION { {<<m>> \o rest : rest \in OrderedByNameDesc(S \ {m})} :
                 m \in {x \in S : \A y \in S : ~NameLess(x, y)} }

\* the orders in which the rows of S may come back: sorted by name, rows of
\* equal name in any order
RECURSIVE OrderedByName(_)
OrderedByName(S) ==
    IF S = {} THEN {<<>>}
    ELSE UNION { {<<m>> \o rest : rest \in OrderedByName(S \ {m})} :
                 m \in {x \in S : \A y \in S : ~NameLess(y, x)} }

ListAllStart ==
    /\ Begin("list_all")
    /\ get_conn
    /\ pc' = "execute"
    /\ UNCHANGED <<pure, storeVars, outcome, insertVars, genVars, rows, optVars>>

\* SELECT ... GROUP BY all five columns ORDER BY surname, given_name, patronymic
ListAllExecute ==
    /\ Running("list_all", "execute")
    /\ \E err \in BOOLEAN :
        IF err \/ ~schema
        THEN Raise /\ txn' = "aborted" /\ UNCHANGED rows
        ELSE /\ \E result \in OrderedByName(BagToSet(work)) : rows' = result
             /\ txn' = "active"
             /\ pc' = "close"
             /\ UNCHANGED <<op, outcome>>
    /\ UNCHANGED <<pure, storeVars, conn, acquired, work, pendingIdx, insertVars, genVars,
                   optVars, attempted, tableAtStart, repeat, loaded>>

\* conn.close(), then the listing and the total, len(rows)
ListAllClose ==
    /\ Running("list_all", "close")
    /\ conn' = "closed"
    /\ outcome' = "ok"
    /\ UNCHANGED <<pure, storeVars, acquired, txnVars, op, pc, insertVars, genVars, rows,
                   optVars, attempted, tableAtStart, repeat, loaded>>

(***************************************************************************)
(* Mode 4: mode_bulk_generate                                              *)
(***************************************************************************)
\* the call Employee.bulk_insert(conn, list, batch_size=BATCH_SIZE)
CallBulk(list, back) ==
    /\ employees' = list
    /\ batch_size' = BATCH_SIZE
    /\ off' = 0
    /\ ret' = back
    /\ pc' = "bulk_loop"

\* mode_bulk_generate(total=n) up to its loop
BulkGenerate(n) ==
    /\ Begin("bulk_generate")
    /\ total' = n
    /\ get_conn
    /\ batch' = <<>> /\ idx' = 0
    /\ pc' = "generate"
    /\ UNCHANGED <<pure, storeVars, outcome, insertVars, rows, optVars>>

BulkGenerateStart == \E n \in 0..MaxTotal : BulkGenerate(n)

\* totals that go once round the letters: one record for each letter, and one more
LongTotals == {Len(LETTERS), Len(LETTERS) + 1}

BulkGenerateStartLong == \E n \in LongTotals : BulkGenerate(n)

\* one turn of the loop over range(total): generate, append, flush a full batch
GenerateNext ==
    /\ Running("bulk_generate", "generate")
    /\ idx < total
    /\ \E d \in GeneralDraws :
        LET e == gen_random_employee(GeneralLetter(idx), GeneralGender(idx), d)
        IN  /\ batch' = Append(batch, e)
            /\ IF Len(batch) + 1 >= BATCH_SIZE
               THEN CallBulk(Append(batch, e), "clear")
               ELSE UNCHANGED <<employees, batch_size, off, ret, pc>>
    /\ idx' = idx + 1
    /\ UNCHANGED <<pure, storeVars, conn, acquired, txnVars, op, outcome, emp, argv, total, rows,
                   optVars, attempted, tableAtStart, repeat, loaded>>

\* the flush returned, without batch.clear()
BatchKept ==
    /\ Running("bulk_generate", "clear")
    /\ batch' = batch
    /\ pc' = "generate"
    /\ UNCHANGED <<pure, storeVars, conn, acquired, txnVars, op, outcome, insertVars, total,
                   idx, rows, optVars, attempted, tableAtStart, repeat, loaded>>

\* the flush returned: batch.clear()
BatchClear ==
    /\ Running("bulk_generate", "clear")
    /\ batch' = <<>>
    /\ pc' = "generate"
    /\ UNCHANGED <<pure, storeVars, conn, acquired, txnVars, op, outcome, insertVars, total,
                   idx, rows, optVars, attempted, tableAtStart, repeat, loaded>>

\* after the loop: if batch: flush what is left
GenerateRest ==
    /\ Running("bulk_generate", "generate")
    /\ idx = total
    /\ IF Len(batch) > 0
       THEN CallBulk(batch, "special")
       ELSE pc' = "special" /\ UNCHANGED <<employees, batch_size, off, ret>>
    /\ UNCHANGED <<pure, storeVars, conn, acquired, txnVars, op, outcome, emp, argv, genVars, rows,
                   optVars, attempted, tableAtStart, repeat, loaded>>

\* the special records, built and handed to Employee.bulk_insert
InsertSpecial ==
    /\ Running("bulk_generate", "special")
    /\ \E d \in [1..SPECIAL_COUNT -> SpecialDraws] :
        CallBulk([k \in 1..SPECIAL_COUNT |-> SpecialEmployee(k, d[k])], "close")
    /\ UNCHANGED <<pure, storeVars, conn, acquired, txnVars, op, outcome, emp, argv, genVars, rows,
                   optVars, attempted, tableAtStart, repeat, loaded>>

\* conn.close() and "Генерация завершена"
BulkGenerateClose ==
    /\ Running("bulk_generate", "close")
    /\ conn' = "closed"
    /\ outcome' = "ok"
    /\ loaded' = TRUE
    /\ UNCHANGED <<pure, storeVars, acquired, txnVars, op, pc, insertVars, genVars, rows,
                   optVars, attempted, tableAtStart, repeat>>

(***************************************************************************)
(* Mode 5: mode_select_male_F_measure                                      *)
(***************************************************************************)
\* the orders in which the rows of S may come back under ORDER BY surname
RECURSIVE OrderedBySurname(_)
OrderedBySurname(S) ==
    IF S = {} THEN {<<>>}
    ELSE UNION { {<<m>> \o rest : rest \in OrderedBySurname(S \ {m})} :
                 m \in {x \in S : \A y \in S : ~TextLess(y[1], x[1])} }

\* the rows the query selects
SelectMaleF(visible) == {t \in BagToSet(visible) : MaleF(t)}

SelectStart ==
    /\ Begin("select")
    /\ get_conn
    /\ pc' = "execute"
    /\ UNCHANGED <<pure, storeVars, outcome, insertVars, genVars, rows, optVars>>

\* cur.execute(sql, ("Male", "F%")); rows = cur.fetchall()
SelectExecute ==
    /\ Running("select", "execute")
    /\ \E err \in BOOLEAN :
        IF err \/ ~schema
        THEN Raise /\ txn' = "aborted" /\ UNCHANGED rows
        ELSE /\ \E result \in OrderedBySurname(SelectMaleF(work)) : rows' = result
             /\ txn' = "active"
             /\ pc' = "close"
             /\ UNCHANGED <<op, outcome>>
    /\ UNCHANGED <<pure, storeVars, conn, acquired, work, pendingIdx, insertVars, genVars,
                   optVars, attempted, tableAtStart, repeat, loaded>>

\* conn.close(), then the count, len(rows), and the preview
SelectClose ==
    /\ Running("select", "close")
    /\ conn' = "closed"
    /\ outcome' = "ok"
    /\ UNCHANGED <<pure, storeVars, acquired, txnVars, op, pc, insertVars, genVars, rows,
                   optVars, attempted, tableAtStart, repeat, loaded>>

(***************************************************************************)
(* Mode 6: mode_optimize_create_indexes                                    *)
(***************************************************************************)
OptimizeStart ==
    /\ Begin("optimize")
    /\ get_conn
    /\ sidx' = 1 /\ reported' = 0 /\ results' = <<>> /\ faulted' = FALSE
    /\ pc' = "create"
    /\ UNCHANGED <<pure, storeVars, outcome, insertVars, genVars, rows>>

\* CREATE INDEX without IF NOT EXISTS: an index of that name is an error
CreateIndexPlain(name) == ~schema \/ name \in indexes \cup pendingIdx

\* CREATE INDEX IF NOT EXISTS name ON employees (...): the state of the store
\* rejects the statement only when the table is missing; an index of that name
\* makes it a no-op
CreateIndexRejected(name) == ~schema

\* how cur.execute(s) may end on the connection: "ok", "statement" (the server
\* rejects the statement and aborts the transaction) or "connection" (the
\* connection is lost).  In an aborted transaction every statement is rejected.
CreateIndexResults ==
    IF txn = "lost" THEN {"connection"}
    ELSE IF txn = "aborted" \/ CreateIndexRejected(sqls[sidx]) THEN {"statement", "connection"}
    ELSE {"ok", "statement", "connection"}

\* the result is a failure the state of the store and of the transaction does
\* not account for (a timeout, a cancelled statement, a dropped connection)
StoreFault(result) ==
    \/ result = "connection" /\ txn # "lost"
    \/ result = "statement" /\ txn # "aborted" /\ ~CreateIndexRejected(sqls[sidx])

\* the loop without its try/except: a failed cur.execute(s) leaves the operation
CreateIndexUncaught ==
    /\ Running("optimize", "create")
    /\ sidx <= Len(sqls)
    /\ \E result \in CreateIndexResults :
        /\ txn' = IF result = "ok" THEN "active"
                  ELSE IF result = "connection" THEN "lost" ELSE "aborted"
        /\ pendingIdx' = IF result = "ok" THEN pendingIdx \cup {sqls[sidx]} ELSE pendingIdx
        /\ results' = Append(results, result)
        /\ faulted' = (faulted \/ StoreFault(result))
        /\ outcome' = IF result = "ok" THEN outcome ELSE "error"
    /\ sidx' = sidx + 1
    /\ UNCHANGED <<pure, storeVars, conn, acquired, work, op, pc, reported, insertVars, genVars,
                   rows, attempted, tableAtStart, repeat, loaded>>

\* one turn of: for s in sqls: try: cur.execute(s) except Exception: print(...)
CreateIndex ==
    /\ Running("optimize", "create")
    /\ sidx <= Len(sqls)
    /\ \E result \in CreateIndexResults :
        /\ txn' = IF result = "ok" THEN "active"
                  ELSE IF result = "connection" THEN "lost" ELSE "aborted"
        /\ pendingIdx' = IF result = "ok" THEN pendingIdx \cup {sqls[sidx]} ELSE pendingIdx
        /\ results' = Append(results, result)
        /\ faulted' = (faulted \/ StoreFault(result))
        /\ reported' = IF result = "ok" THEN reported ELSE reported + 1
    /\ sidx' = sidx + 1
    /\ UNCHANGED <<pure, storeVars, conn, acquired, work, op, pc, outcome, insertVars, genVars,
                   rows, attempted, tableAtStart, repeat, loaded>>

\* conn.commit() after the loop: on a lost connection it raises; in an aborted
\* transaction the server answers COMMIT with a rollback and no error
OptimizeCommit ==
    /\ Running("optimize", "create")
    /\ sidx > Len(sqls)
    /\ \E err \in BOOLEAN :
        IF txn = "lost" \/ (err /\ txn = "active")
        THEN /\ Raise
             /\ faulted' = (faulted \/ txn # "lost")
             /\ UNCHANGED <<indexes, txnVars>>
        ELSE /\ indexes' = IF txn = "active" THEN indexes \cup pendingIdx ELSE indexes
             /\ pendingIdx' = {}
             /\ txn' = "idle"
             /\ pc' = "close"
             /\ UNCHANGED <<op, outcome, work, faulted>>
    /\ UNCHANGED <<pure, schema, table, conn, acquired, insertVars, genVars, rows, sidx,
                   reported, results, attempted, tableAtStart, repeat, loaded>>

\* conn.close() and "Индексы созданы."
OptimizeClose ==
    /\ Running("optimize", "close")
    /\ conn' = "closed"
    /\ outcome' = "ok"
    /\ UNCHANGED <<pure, storeVars, acquired, txnVars, op, pc, insertVars, genVars, rows,
                   optVars, attempted, tableAtStart, repeat, loaded>>

(***************************************************************************)
(* The process ends and the next command is run                            *)
(***************************************************************************)
\* the operation is over: its process exits, which drops a connection left
\* open together with the transaction open on it
Exit ==
    /\ outcome \in {"ok", "error"}
    /\ op' = "idle" /\ pc' = "idle" /\ outcome' = "none"
    /\ conn' = "none" /\ acquired' = 0
    /\ txn' = "idle" /\ work' = table /\ pendingIdx' = {}
    /\ argv' = <<>> /\ emp' = NoEmployee /\ employees' = <<>> /\ batch_size' = 0 /\ off' = 0 /\ ret' = "none"
    /\ total' = 0 /\ idx' = 0 /\ batch' = <<>>
    /\ rows' = <<>>
    /\ sidx' = 0 /\ reported' = 0 /\ results' = <<>> /\ faulted' = FALSE
    /\ attempted' = <<>> /\ tableAtStart' = table /\ repeat' = FALSE
    /\ UNCHANGED <<pure, storeVars, loaded>>

\* the six modes of the command line
Next ==
    \/ CreateTableStart \/ CreateTableExecute \/ CreateTableClose
    \/ InsertSingleStart \/ SaveExecute \/ SaveCommit \/ InsertSingleClose
    \/ ListAllStart \/ ListAllExecute \/ ListAllClose
    \/ BulkGenerateStart \/ GenerateNext \/ BatchClear \/ GenerateRest
    \/ InsertSpecial \/ BulkExecuteValues \/ BulkCommit \/ BulkGenerateClose
    \/ SelectStart \/ SelectExecute \/ SelectClose
    \/ OptimizeStart \/ CreateIndex \/ OptimizeCommit \/ OptimizeClose
    \/ Exit

Spec == Init /\ [][Next]_vars

\* Employee.save and Employee.bulk_insert called directly, with any record,
\* list and batch size, on a table made by mode 1
NextApi ==
    \/ CreateTableStart \/ CreateTableExecute \/ CreateTableClose
    \/ CallSave \/ SaveExecute \/ SaveCommit
    \/ CallBulkInsert \/ BulkExecuteValues \/ BulkCommit
    \/ CallAgain
    \/ Exit

SpecApi == Init /\ [][NextApi]_vars

\* mode 4 alone, also with totals that go round the letters
NextGen ==
    \/ CreateTableStart \/ CreateTableExecute \/ CreateTableClose
    \/ BulkGenerateStart \/ BulkGenerateStartLong
    \/ GenerateNext \/ BatchClear \/ GenerateRest
    \/ InsertSpecial \/ BulkExecuteValues \/ BulkCommit \/ BulkGenerateClose
    \/ Exit

SpecGen == Init /\ [][NextGen]_vars

(***************************************************************************)
(* Functions called on their own                                           *)
(***************************************************************************)
\* the rest of the program stands still while a function is called on its own
Apply(fn) ==
    /\ pure.fn = fn /\ ~pure.done
    /\ UNCHANGED progVars

\* tokens written one after the other with the text gap between them
RECURSIVE Written(_, _)
Written(tokens, gap) ==
    IF Len(tokens) = 0 THEN <<>>
    ELSE IF Len(tokens) = 1 THEN tokens[1]
    ELSE tokens[1] \o gap \o Written(Tail(tokens), gap)

\* words without whitespace ("a", "bc"), the whitespace written between two
\* words (" ", "  ", tab) and around the name ("", " ")
Words == { <<97>>, <<98, 99>> }
Gaps == { <<SPACE>>, <<SPACE, SPACE>>, <<9>> }
Pads == { <<>>, <<SPACE>> }

\* the full names handed to parse_fullname: up to MaxTokens words
NameCalls ==
    { [fn |-> "parse_fullname", done |-> FALSE, tokens |-> t, gap |-> g,
       arg |-> pad \o Written(t, g) \o pad, out |-> <<>>] :
        t \in UNION {[1..k -> Words] : k \in 0..MaxTokens}, g \in Gaps, pad \in Pads }

InitParse == Idle /\ pure \in NameCalls

\* parse_fullname(fullname)
ApplyParseFullname ==
    /\ Apply("parse_fullname")
    /\ pure' = [pure EXCEPT !.done = TRUE, !.out = parse_fullname(pure.arg)]

NextParse == ApplyParseFullname

SpecParse == InitParse /\ [][NextParse]_vars

\* the dates of birth and the reference dates handed to Employee.age: days
\* around the 12th and the end of February, July and December, from the year
\* 2000 on
AgeDays == {<<m, d>> : m \in {2, 7, 12}, d \in {11, 12, 13, 29}}
BirthDates == {<<2000, md[1], md[2]>> : md \in {x \in AgeDays : ValidDate(2000, x[1], x[2])}}
RefDates ==
    UNION {{<<y, md[1], md[2]>> : md \in {x \in AgeDays : ValidDate(y, x[1], x[2])}} :
              y \in 2000..(2000 + MaxYears)}

\* the reference date is not before the date of birth
AgeCalls ==
    { [fn |-> "age", done |-> FALSE, born |-> p[1], ref |-> p[2], out |-> 0] :
        p \in {x \in BirthDates \X RefDates : ~SeqLess(x[2], x[1])} }

InitAge == Idle /\ pure \in AgeCalls

\* Employee(..., date_of_birth=born, ...).age(today=ref)
ApplyAge ==
    /\ Apply("age")
    /\ pure' = [pure EXCEPT !.done = TRUE,
                            !.out = age([NoEmployee EXCEPT !.date_of_birth = pure.born],
                                        pure.ref)]

NextAge == ApplyAge

SpecAge == InitAge /\ [][NextAge]_vars

\* every date of birth gen_random_employee can draw: age_years in 18..70, a
\* month in 1..12, a day in 1..28
BirthDraws ==
    [n : {1}, given : {FIRST_NAMES[1]}, patronymic : {PATRONYMICS[1]},
     age_years : 18..70, month : 1..12, day : 1..28]

\* every date of birth of a special record: a year in today.year-60 ..
\* today.year-18, a month in 1..12, a day in 1..28
SpecialBirthDraws ==
    [given : {FIRST_NAMES[1]}, patronymic : {PATRONYMICS[1]},
     year : (Today[1] - 60)..(Today[1] - 18), month : 1..12, day : 1..28]

DrawCalls ==
    {[fn |-> "gen_random_employee", done |-> FALSE, draw |-> d, out |-> 0] : d \in BirthDraws}
    \cup {[fn |-> "special", done |-> FALSE, draw |-> d, out |-> 0] : d \in SpecialBirthDraws}

InitDraw == Idle /\ pure \in DrawCalls

\* gen_random_employee(letter, gender) and the age of the record on that day
ApplyGenRandomEmployee ==
    /\ Apply("gen_random_employee")
    /\ pure' = [pure EXCEPT !.done = TRUE,
                            !.out = age(gen_random_employee(LETTERS[1], MALE, pure.draw), Today)]

\* one special record of mode_bulk_generate and its age on that day
ApplySpecial ==
    /\ Apply("special")
    /\ pure' = [pure EXCEPT !.done = TRUE,
                            !.out = age(SpecialEmployee(1, pure.draw), Today)]

NextDraw == ApplyGenRandomEmployee \/ ApplySpecial

SpecDraw == InitDraw /\ [][NextDraw]_vars

(***************************************************************************)
(* Properties                                                              *)
(***************************************************************************)
\* the number of rows of a bag that carry the identity key
KeyCount(bag, key) ==
    BagCardinality([t \in {x \in BagToSet(bag) : UniqueKey(x) = key} |-> bag[t]])

\* the modes that open a connection
Modes == {"create_table", "insert_single", "list_all", "bulk_generate", "select", "optimize"}

Ended == outcome \in {"ok", "error"}

\* C1: in every state the modes reach, no two stored rows share
\* (surname, given_name, patronymic, date_of_birth).
C1_Uniqueness ==
    \A t \in BagToSet(table) : KeyCount(table, UniqueKey(t)) = 1

\* a load has returned that met rows whose keys were already stored and added others
C1_Witness ==
    /\ op = "bulk_generate" /\ outcome = "ok"
    /\ \E k \in 1..Len(attempted) : UniqueKey(attempted[k]) \in KeysOf(tableAtStart)
    /\ BagCardinality(table) > BagCardinality(tableAtStart)

\* C2: insertion is idempotent: a save or a bulk_insert repeated with the same
\* arguments right after it returned leaves the stored rows as the first call
\* left them, and after the two saves exactly one row carries the record's key.
C2_Idempotent ==
    (repeat /\ outcome = "ok") =>
        /\ table = tableAtStart
        /\ op = "save" => KeyCount(table, UniqueKey(to_tuple(emp))) = 1
        /\ op = "bulk_insert" =>
              \A k \in 1..Len(tuples) : KeyCount(table, UniqueKey(tuples[k])) = 1

\* a list of three records in chunks of two has been inserted a second time
C2_Witness ==
    /\ repeat /\ outcome = "ok" /\ op = "bulk_insert"
    /\ Len(employees) = 3 /\ batch_size = 2
    /\ BagCardinality(table) >= 2

\* C3: a stored row is never updated or deleted: every step keeps every stored
\* row as it is; and when a save or a load that offered a record whose key was
\* stored with another gender has returned, the stored row still has its gender
\* and the key still has one row.
C3_RowsKept ==
    /\ [][table \sqsubseteq table']_vars
    /\ [](outcome = "ok" =>
            \A k \in 1..Len(attempted) : \A t \in BagToSet(tableAtStart) :
                (UniqueKey(t) = UniqueKey(attempted[k]) /\ t[5] # attempted[k][5]) =>
                    /\ CopiesIn(t, table) = 1
                    /\ KeyCount(table, UniqueKey(t)) = 1)

\* a mode-2 insert has returned whose key was stored with the other gender
C3_Witness ==
    /\ op = "insert_single" /\ outcome = "ok"
    /\ \E t \in BagToSet(tableAtStart) :
          /\ UniqueKey(t) = UniqueKey(to_tuple(emp))
          /\ t[5] # emp.gender
          /\ t \in BagToSet(table)

\* C4: bulk_insert commits after each chunk: when the insert of a chunk fails,
\* the rows of the chunks before it are in the store.
C4_CommitPerChunk ==
    (op = "bulk_insert" /\ outcome = "error" /\ pc = "bulk_loop" /\ off < Len(tuples)) =>
        \A k \in 1..off : UniqueKey(tuples[k]) \in KeysOf(table)

C6_NoRollback ==
    (op = "optimize" /\ outcome = "ok") =>
        \A i, j \in 1..Len(results) :
            (results[i] = "ok" /\ results[j] = "statement") => sqls[i] \in indexes

\* C7: an operation that opened a connection opened exactly one and has closed
\* it when it ends, with or without an error.
C7_ConnectionReleased ==
    (op \in Modes /\ Ended /\ acquired > 0) => (acquired = 1 /\ conn = "closed")

\* the surnames of the special records
IsSpecialSurname(s) == \E k \in 1..SPECIAL_COUNT : s = SpecialSurname(k)

\* no stored row carries a special surname with a gender other than Male
NoForeignSpecial ==
    \A t \in BagToSet(table) : IsSpecialSurname(t[1]) => t[5] = MALE

\* C8 as stated: once a load has completed, the mode-5 query returns at least
\* as many rows as there are special records, all of them Male with a surname
\* starting with "F", whatever was inserted before.
C8_Original ==
    (op = "select" /\ outcome = "ok" /\ loaded) =>
        /\ Len(rows) >= SPECIAL_COUNT
        /\ \A k \in 1..Len(rows) :
              rows[k][5] = MALE /\ Len(rows[k][1]) >= 1 /\ rows[k][1][1] = 70

\* C8, amended: once a load has completed, every row the mode-5 query returns is
\* Male with a surname starting with "F", and there are at least as many of
\* them as special records provided no stored row carries a special surname
\* with another gender.
C8_AfterLoad ==
    (op = "select" /\ outcome = "ok" /\ loaded) =>
        /\ \A k \in 1..Len(rows) :
              rows[k][5] = MALE /\ Len(rows[k][1]) >= 1 /\ rows[k][1][1] = 70
        /\ NoForeignSpecial => Len(rows) >= SPECIAL_COUNT

\* the query has returned after a load, the store holding a woman with an
\* F surname that it left out
C8_Witness ==
    /\ op = "select" /\ outcome = "ok" /\ loaded
    /\ NoForeignSpecial
    /\ Len(rows) >= SPECIAL_COUNT
    /\ \E t \in BagToSet(table) : t[1][1] = 70 /\ t[5] = FEMALE

\* C9: general record i of a load has the surname initial letter[i mod 26] and
\* is Male for even i, Female for odd i; a load of 26 has one record for each
\* letter; and the records after the total general ones are SPECIAL_COUNT
\* records, each Male with a surname starting with "F".
C9_Generation ==
    op = "bulk_generate" =>
        /\ \A j \in 1..Len(batch) :
              LET i == idx - Len(batch) + j - 1
              IN  /\ batch[j].surname[1] = 65 + (i % 26)
                  /\ batch[j].gender = IF i % 2 = 0 THEN MALE ELSE FEMALE
        /\ (pc = "bulk_loop" /\ ret = "close") =>
              /\ Len(employees) = SPECIAL_COUNT
              /\ \A k \in 1..Len(employees) :
                    employees[k].gender = MALE /\ employees[k].surname[1] = 70
        /\ outcome = "ok" =>
              /\ Len(attempted) = total + SPECIAL_COUNT
              /\ \A k \in 1..total :
                    /\ attempted[k][1][1] = 65 + ((k - 1) % 26)
                    /\ attempted[k][5] = IF (k - 1) % 2 = 0 THEN MALE ELSE FEMALE
              /\ \A k \in (total + 1)..Len(attempted) :
                    attempted[k][5] = MALE /\ attempted[k][1][1] = 70
              /\ total = 26 =>
                    \A c \in 65..90 :
                        Cardinality({k \in 1..total : attempted[k][1][1] = c}) = 1

\* a load of 27 general records, one more than there are letters, has returned
C9_Witness ==
    /\ op = "bulk_generate" /\ outcome = "ok"
    /\ total = 27
    /\ attempted[27][1][1] = 65

\* the records handed to the running direct call
CallRecords ==
    IF op = "save" THEN {emp}
    ELSE IF op = "bulk_insert" THEN {employees[k] : k \in 1..Len(employees)}
    ELSE {}

\* C10 as stated: a save or bulk_insert handed a record whose surname or given
\* name is None or the empty string ends with an error and stores no row.
C10_Original ==
    (Ended /\ \E e \in CallRecords :
                  e.surname \in {None, EmptyStr} \/ e.given_name \in {None, EmptyStr}) =>
        (outcome = "error" /\ table = tableAtStart)

\* C10, amended: a save or bulk_insert handed a record whose surname or given
\* name is None never returns normally and stores no row of the call.
C10_NullFailsAll ==
    (\E e \in CallRecords : e.surname = None \/ e.given_name = None) =>
        (outcome # "ok" /\ table = tableAtStart)

\* a bulk_insert has failed on a record without surname after the chunk before
\* it, holding a record that is not stored, had been inserted
C10_Witness ==
    /\ op = "bulk_insert" /\ outcome = "error"
    /\ off >= 1 /\ off < Len(employees)
    /\ employees[off + 1].surname = None
    /\ NotNullOk(tuples[1])
    /\ UniqueKey(tuples[1]) \notin KeysOf(table)


\* the indexes mode 6 creates
IndexNames == {sqls[k] : k \in 1..Len(sqls)}

\* C11: creating the indexes is idempotent: an invocation of mode 6 the store
\* does not fail for an outside reason never ends in an error, whatever ran
\* before it; on an existing table each of its statements succeeds, also when
\* the index it names exists, and when it has ended the store holds exactly the
\* two indexes, each once, as after a single invocation.
C11_Idempotent ==
    (op = "optimize" /\ ~faulted) =>
        /\ outcome # "error"
        /\ schema => \A k \in 1..Len(results) : results[k] = "ok"
        /\ (outcome = "ok" /\ schema) => (indexes = IndexNames /\ Cardinality(indexes) = Len(sqls))
        /\ (outcome = "ok" /\ ~schema) => indexes = {}

\* a later invocation: both statements have run without error on a store that
\* held both indexes when the invocation started
C11_Witness ==
    /\ op = "optimize" /\ ~faulted /\ outcome = "none"
    /\ sidx > Len(sqls)
    /\ results = <<"ok", "ok">>
    /\ txn = "active"
    /\ indexes = IndexNames


\* s is a calendar date written as YYYY-MM-DD: four, two and two digits
IsoDate(s) ==
    /\ Len(s) = 10
    /\ s[5] = 45 /\ s[8] = 45
    /\ \A k \in {1, 2, 3, 4, 6, 7, 9, 10} : IsDigit(s[k])
    /\ ValidDate(DigitsValue(SubSeq(s, 1, 4)), DigitsValue(SubSeq(s, 6, 7)),
                 DigitsValue(SubSeq(s, 9, 10)))

\* what a failed-fast mode 2 looks like: the exception has left it, the store
\* is as it was, nothing was handed to the store, no connection was acquired
FailedFast ==
    /\ outcome = "error"
    /\ table = tableAtStart
    /\ attempted = <<>>
    /\ acquired = 0 /\ conn = "none"

C13_ParseFullname ==
    (pure.fn = "parse_fullname" /\ pure.done) =>
        LET t == pure.tokens
            k == Len(t)
        IN  /\ k < 2 => ~pure.out.ok
            /\ k = 2 => (pure.out.ok /\ pure.out.value = <<t[1], t[2], EmptyStr>>)
            /\ k = 3 => (pure.out.ok /\ pure.out.value = <<t[1], t[2], t[3]>>)
            /\ k > 3 => (/\ pure.out.ok
                         /\ pure.out.value =
                                <<t[1], t[2], Written(SubSeq(t, 3, k), <<SPACE>>)>>)

\* a name of five tokens written with two spaces between them and a space
\* around has been parsed
C13_Witness ==
    /\ pure.fn = "parse_fullname" /\ pure.done
    /\ Len(pure.tokens) = 5
    /\ pure.gap = <<SPACE, SPACE>>
    /\ Head(pure.arg) = SPACE
    /\ pure.out.ok


\* date a is date b or an earlier one
NotAfter(a, b) ==
    \/ a[1] < b[1]
    \/ a[1] = b[1] /\ a[2] < b[2]
    \/ a[1] = b[1] /\ a[2] = b[2] /\ a[3] <= b[3]

\* the birthdays after the birth that the reference date has reached
BirthdaysReached(b, r) ==
    Cardinality({y \in (b[1] + 1)..r[1] : NotAfter(<<y, b[2], b[3]>>, r)})

\* C14: for a date of birth b and a reference date r not before it, age is
\* r.year - b.year, less one exactly when (r.month, r.day) comes before
\* (b.month, b.day): the number of birthdays r has reached.  Born 2000-07-12,
\* the age is 23 on 2024-07-11 and 24 on 2024-07-12.
C14_Age ==
    (pure.fn = "age" /\ pure.done) =>
        LET b == pure.born
            r == pure.ref
            before == r[2] < b[2] \/ (r[2] = b[2] /\ r[3] < b[3])
        IN  /\ pure.out = (r[1] - b[1]) - (IF before THEN 1 ELSE 0)
            /\ pure.out = BirthdaysReached(b, r)
            /\ (b = <<2000, 7, 12>> /\ r = <<2024, 7, 11>>) => pure.out = 23
            /\ (b = <<2000, 7, 12>> /\ r = <<2024, 7, 12>>) => pure.out = 24

\* the age of someone born 2000-07-12 has been computed for the 24th birthday
C14_Witness ==
    /\ pure.fn = "age" /\ pure.done
    /\ pure.born = <<2000, 7, 12>>
    /\ pure.ref = <<2024, 7, 12>>
    /\ pure.out = 24


\* C15: a listing of mode 3 that has returned its rows holds every stored row
\* exactly once, in non-decreasing order of (surname, given_name, patronymic),
\* and the total it prints, the number of rows fetched, is the number of rows
\* in the store.
C15_ListAll ==
    (op = "list_all" /\ pc = "close") =>
        /\ SeqToBag(rows) = table
        /\ \A t \in BagToSet(table) : Cardinality({k \in 1..Len(rows) : rows[k] = t}) = 1
        /\ \A i, j \in 1..Len(rows) : i < j => ~NameLess(rows[j], rows[i])
        /\ Len(rows) = BagCardinality(table)

\* a listing has ended over at least three rows, two of them of the same name
\* and one of another surname
C15_Witness ==
    /\ op = "list_all" /\ outcome = "ok"
    /\ Len(rows) >= 3
    /\ \E i, j \in 1..Len(rows) :
          /\ i < j
          /\ <<rows[i][1], rows[i][2], rows[i][3]>> = <<rows[j][1], rows[j][2], rows[j][3]>>
    /\ \E i, j \in 1..Len(rows) : rows[i][1] # rows[j][1]


\* the rows a failed load handed to the store in the flushes before the one
\* that failed
EarlierFlushes == SubSeq(attempted, 1, Len(attempted) - Len(tuples))

\* C16: when a flush of a mode-4 load fails, the error leaves the load, which
\* does nothing more (no later flush, no special record after a failed general
\* flush), and the store holds what it held before the load together with
\* what the flushes before the failed one inserted, and nothing of the failed
\* flush.
C16_FlushFailure ==
    /\ [][(op = "bulk_generate" /\ outcome = "error") =>
              (op' = "idle" /\ table' = table)]_vars
    /\ []((op = "bulk_generate" /\ outcome = "error") =>
            /\ pc = "bulk_loop"
            /\ table = InsertDoNothing(tableAtStart, EarlierFlushes)
            /\ ret # "close" => \A k \in 1..Len(attempted) : ~IsSpecialSurname(attempted[k][1]))

\* a general flush has failed after an earlier flush of the load stored rows
C16_Witness ==
    /\ op = "bulk_generate" /\ outcome = "error"
    /\ ret # "close"
    /\ Len(EarlierFlushes) >= BATCH_SIZE
    /\ table # tableAtStart
    /\ \E k \in 1..Len(tuples) : UniqueKey(tuples[k]) \notin KeysOf(table)


\* the i-th general record (i from 0) of a load, as a row
IsGeneralRow(t, i) ==
    \E d \in GeneralDraws : t = to_tuple(gen_random_employee(GeneralLetter(i), GeneralGender(i), d))

\* a load that met no error hands every generated record to the store once and
\* in the order of generation: a record is in the batch or in the rows already
\* handed over; a flush inside the loop holds exactly BATCH_SIZE records, the
\* flush after the loop the 1..BATCH_SIZE-1 records left, the last flush the
\* special records; N + SPECIAL_COUNT rows are handed over in all
FlushDiscipline ==
    /\ pc = "generate" =>
          /\ Len(attempted) + Len(batch) = idx
          /\ Len(attempted) % BATCH_SIZE = 0
    /\ pc = "bulk_loop" => Len(employees) <= BATCH_SIZE
    /\ (pc = "bulk_loop" /\ ret = "clear") =>
          (employees = batch /\ Len(batch) = BATCH_SIZE)
    /\ pc = "clear" =>
          /\ Len(attempted) = idx
          /\ SubSeq(attempted, idx - BATCH_SIZE + 1, idx) = [k \in 1..Len(batch) |-> to_tuple(batch[k])]
    /\ (pc = "bulk_loop" /\ ret = "special") =>
          (employees = batch /\ Len(batch) \in 1..(BATCH_SIZE - 1) /\ idx = total)
    /\ pc = "special" => Len(attempted) = total
    /\ (pc = "bulk_loop" /\ ret = "close") =>
          /\ Len(employees) = SPECIAL_COUNT
          /\ \A k \in 1..SPECIAL_COUNT : employees[k].surname = SpecialSurname(k)
    /\ \A k \in 1..Len(attempted) : k <= total => IsGeneralRow(attempted[k], k - 1)
    /\ outcome = "ok" =>
          /\ Len(attempted) = total + SPECIAL_COUNT
          /\ \A k \in 1..SPECIAL_COUNT : attempted[total + k][1] = SpecialSurname(k)

\* the flushes of the load that are over
FullFlushOver == pc = "generate"
LastFlushOver == pc \in {"special", "close"} \/ (pc = "bulk_loop" /\ ret = "close")

\* C17 as stated: in a load that meets no error every generated record is
\* handed to the store once and in order, in flushes of at most B records (B in
\* each but the last general one), N + 100 rows in all, and the batch is empty
\* after each flush.
C17_Original ==
    (op = "bulk_generate" /\ outcome # "error") =>
        /\ FlushDiscipline
        /\ FullFlushOver => Len(batch) < BATCH_SIZE
        /\ LastFlushOver => batch = <<>>

\* C17, amended: as stated, but the batch is emptied only after the flushes
\* made inside the loop; after the flush of the records left when the loop ends
\* the batch still holds them.
C17_Flushes ==
    (op = "bulk_generate" /\ outcome # "error") =>
        /\ FlushDiscipline
        /\ FullFlushOver => Len(batch) < BATCH_SIZE
        /\ LastFlushOver => Len(batch) = total % BATCH_SIZE

\* a load has completed that flushed a full batch, then the records left over,
\* then the special records
C17_Witness ==
    /\ op = "bulk_generate" /\ outcome = "ok"
    /\ total > BATCH_SIZE /\ total % BATCH_SIZE # 0
    /\ Len(attempted) = total + SPECIAL_COUNT
    /\ Len(batch) = total % BATCH_SIZE


\* C18: on the day it is generated a record of gen_random_employee is 18 to 70
\* years old and a special record 18 to 60, whatever month and day are drawn.
C18_AgeRange ==
    pure.done =>
        /\ pure.fn = "gen_random_employee" => pure.out \in 18..70
        /\ pure.fn = "special" => pure.out \in 18..60


\* records i and j of the call go to the store in the same chunk
SameChunk(i, j) == (i - 1) \div batch_size = (j - 1) \div batch_size

\* the position of the first record of the call with the key of record i
FirstWithKey(i) ==
    CHOOSE j \in 1..i :
        /\ UniqueKey(tuples[j]) = UniqueKey(tuples[i])
        /\ \A h \in 1..(j - 1) : UniqueKey(tuples[h]) # UniqueKey(tuples[i])

\* C19: when a bulk_insert whose chunk holds two or more records of one key
\* that was not stored has returned, the store holds exactly one row of that
\* key, the first of them in list order; every other record of the call has
\* its key stored once, and the rows stored before are as they were.
C19_FirstWins ==
    (op = "bulk_insert" /\ outcome = "ok") =>
        /\ \A i \in 1..Len(tuples) :
              /\ KeyCount(table, UniqueKey(tuples[i])) = 1
              /\ UniqueKey(tuples[i]) \notin KeysOf(tableAtStart) =>
                    CopiesIn(tuples[FirstWithKey(i)], table) = 1
        /\ tableAtStart \sqsubseteq table

\* a bulk_insert has returned that held, in one chunk, two records of one key
\* not stored before, with different genders, and a record of another key
C19_Witness ==
    /\ op = "bulk_insert" /\ outcome = "ok" /\ ~repeat
    /\ \E i, j \in 1..Len(tuples) :
          /\ i < j /\ SameChunk(i, j)
          /\ UniqueKey(tuples[i]) = UniqueKey(tuples[j])
          /\ tuples[i] # tuples[j]
          /\ UniqueKey(tuples[i]) \notin KeysOf(tableAtStart)
    /\ \E i, j \in 1..Len(tuples) : UniqueKey(tuples[i]) # UniqueKey(tuples[j])


\* C20: every general record of a load whose surname starts with "F" is
\* Female; so on the store that one completed load into an empty store leaves,
\* whatever N, the query of mode 5 selects exactly the special records: as many
\* rows as there are special records, each with a special surname.
C20_OnlySpecialMaleF ==
    op = "bulk_generate" =>
        /\ \A k \in 1..Len(batch) : LikeFPrefix(batch[k].surname) => batch[k].gender = FEMALE
        /\ \A k \in 1..Len(attempted) :
              (k <= total /\ LikeFPrefix(attempted[k][1])) => attempted[k][5] = FEMALE
        /\ (outcome = "ok" /\ tableAtStart = EmptyBag) =>
              /\ Cardinality(SelectMaleF(table)) = SPECIAL_COUNT
              /\ \A t \in SelectMaleF(table) : IsSpecialSurname(t[1])
              /\ \A result \in OrderedBySurname(SelectMaleF(table)) : Len(result) = SPECIAL_COUNT

\* a load into an empty store has completed that generated a general record
\* with an "F" surname
C20_Witness ==
    /\ op = "bulk_generate" /\ outcome = "ok"
    /\ tableAtStart = EmptyBag
    /\ \E k \in 1..total : LikeFPrefix(attempted[k][1]) /\ ~IsSpecialSurname(attempted[k][1])
    /\ \E t \in BagToSet(table) : LikeFPrefix(t[1]) /\ t[5] = FEMALE
    /\ Cardinality(SelectMaleF(table)) = SPECIAL_COUNT

====
